---- MODULE Spec2Model ----
(***************************************************************************)
(* Model of tree.py: the Item classes, the walker (class Tree), the        *)
(* renderer (class GraphTree) and the loop of main().                      *)
(*                                                                         *)
(* Strings are sequences of Unicode code points, so that sorted(), fnmatch *)
(* and the f-strings of draw() are modelled by what they do to characters. *)
(* A filesystem is a sequence of nodes; node 1 is the directory the valid  *)
(* root argument names.                                                    *)
(***************************************************************************)
EXTENDS Integers, Sequences, FiniteSets, TLC

VARIABLES fs, paths, depth, exclude, pc, ri, items, stack, stdout, drawStart, err

vars == <<fs, paths, depth, exclude, pc, ri, items, stack, stdout, drawStart, err>>

----------------------------------------------------------------------------
(* Bounds of the model *)

MaxDepthArg == 2    \* -d takes 0..MaxDepthArg, or is omitted
MaxRoots == 2       \* number of positional path arguments
MaxExclude == 2     \* number of -e patterns
SymloopMax == 2     \* symlinks the OS follows in one path before ELOOP

----------------------------------------------------------------------------
(* Characters and names (code points) *)

SPACE == <<32>>
SLASH == <<47>>
EXT_LAST == <<32, 32, 32, 32>>
EXT_MORE == <<9474, 32, 32, 32>>

n_t == <<116>>
n_r == <<114>>
n_sub == <<115, 117, 98>>
n_x_txt == <<120, 46, 116, 120, 116>>
n_y_txt == <<121, 46, 116, 120, 116>>
n_A == <<65>>
n_a == <<97>>
n_a1 == <<97, 49>>
n_b == <<98>>
n_d == <<100>>
n_f == <<102>>
n_l == <<108>>
n_up == <<117, 112>>
n_git == <<46, 103, 105, 116>>
n_gone == <<103, 111, 110, 101>>
n_dotdot == <<46, 46>>

\* the names of the arguments that are not directories
ARG_MISSING == n_gone
ARG_FILE == n_f

p_txt == <<42, 46, 116, 120, 116>>
p_sub == n_sub
p_q == <<63>>
p_git == n_git

Patterns == <<p_txt, p_sub, p_q, p_git>>

----------------------------------------------------------------------------
(* class TreeElements *)

TreeElements_FILE == <<9500, 9472, 9472>>
TreeElements_LINK == <<45, 62>>
TreeElements_DIRECTORY == <<9492, 9472, 9472>>
TreeElements_LAST == TreeElements_DIRECTORY

----------------------------------------------------------------------------
(* Filesystems.  kind: "dir", "file" or "link"; parent: the node of the     *)
(* containing directory (0 for node 1); raw: the string stored in a link;  *)
(* to: the node the link resolves to (0 if it resolves to nothing);        *)
(* readable: whether the directory can be listed.                          *)

Dir(name, parent) ==
    [kind |-> "dir", name |-> name, parent |-> parent, raw |-> <<>>, to |-> 0, readable |-> TRUE]

NoReadDir(name, parent) ==
    [kind |-> "dir", name |-> name, parent |-> parent, raw |-> <<>>, to |-> 0, readable |-> FALSE]

Reg(name, parent) ==
    [kind |-> "file", name |-> name, parent |-> parent, raw |-> <<>>, to |-> 0, readable |-> TRUE]

Sym(name, parent, raw, to) ==
    [kind |-> "link", name |-> name, parent |-> parent, raw |-> raw, to |-> to, readable |-> TRUE]

\* t/ {sub/ {x.txt}, y.txt}
FsScenario == << Dir(n_t, 0), Dir(n_sub, 1), Reg(n_x_txt, 2), Reg(n_y_txt, 1) >>

\* r/ {b, A/ {b, a1}, a1}
FsSort == << Dir(n_r, 0), Reg(n_b, 1), Dir(n_A, 1), Reg(n_a1, 1), Reg(n_b, 3), Reg(n_a1, 3) >>

\* r/ {d/ {f}, l -> d, a -> gone, b -> d/f}
FsLinks ==
    << Dir(n_r, 0), Dir(n_d, 1), Reg(n_f, 2), Sym(n_l, 1, n_d, 2),
       Sym(n_a, 1, n_gone, 0), Sym(n_b, 1, n_d \o SLASH \o n_f, 3) >>

\* r/ {a/ {up -> ..}, f}
FsLoop == << Dir(n_r, 0), Dir(n_a, 1), Sym(n_up, 2, n_dotdot, 1), Reg(n_f, 1) >>

\* r/ {a/ {b/ {d/ {f}, x.txt}, A/}, f}
FsDeep ==
    << Dir(n_r, 0), Dir(n_a, 1), Dir(n_b, 2), Dir(n_d, 3), Reg(n_f, 4),
       Reg(n_x_txt, 3), Dir(n_A, 2), Reg(n_f, 1) >>

\* r/ {a/ (unreadable), b}
FsDenied == << Dir(n_r, 0), NoReadDir(n_a, 1), Reg(n_b, 1) >>

\* r/ {.git/ {x.txt, sub/ {f}}, sub/ {x.txt, y.txt}, a1, l -> .git}
FsExcl ==
    << Dir(n_r, 0), Dir(n_git, 1), Reg(n_x_txt, 2), Dir(n_sub, 2), Reg(n_f, 4),
       Dir(n_sub, 1), Reg(n_x_txt, 6), Reg(n_y_txt, 6), Reg(n_a1, 1), Sym(n_l, 1, n_git, 2) >>

\* r/ {}
FsEmpty == << Dir(n_r, 0) >>

Fixtures == {FsScenario, FsSort, FsLinks, FsLoop, FsDeep, FsDenied, FsExcl, FsEmpty}

\* The positional arguments: the directory of node 1, a path that does not
\* exist, a path to a regular file.
RootArgs == {"dir", "missing", "file"}

----------------------------------------------------------------------------
(* The operating system, as pathlib sees it *)

Max(S) == CHOOSE x \in S : \A y \in S : y <= x

\* Path.iterdir(): the entries of a directory, in no particular order
iterdir(f, d) == {n \in DOMAIN f : f[n].parent = d}

\* Path.is_dir() follows symbolic links; links is the number of symbolic
\* links among the components of the entry's parent path.  Beyond SymloopMax
\* links the stat fails with ELOOP, which is_dir() reports as False.
is_dir(f, n, links) ==
    \/ f[n].kind = "dir"
    \/ /\ f[n].kind = "link"
       /\ f[n].to # 0
       /\ f[f[n].to].kind = "dir"
       /\ links + 1 <= SymloopMax

\* Path.is_symlink() does not follow the entry itself
is_symlink(f, n) == f[n].kind = "link"

\* the directory a listing of entry n reads
Resolve(f, n) == IF f[n].kind = "link" THEN f[n].to ELSE n

\* str.__lt__: lexicographic order of code points
RECURSIVE StrLess(_, _)
StrLess(a, b) ==
    IF b = <<>> THEN FALSE
    ELSE IF a = <<>> THEN TRUE
    ELSE IF Head(a) # Head(b) THEN Head(a) < Head(b)
    ELSE StrLess(Tail(a), Tail(b))

\* PurePath.__lt__ for two entries of one directory: the parents' parts are
\* equal, so the last part (the name) decides
PathLess(f, m, n) == StrLess(f[m].name, f[n].name)

\* the listing in the order the OS returns it, here the order of the nodes
RECURSIVE unsorted(_, _)
unsorted(f, S) ==
    IF S = {} THEN <<>>
    ELSE LET m == CHOOSE x \in S : \A y \in S : x <= y
         IN <<m>> \o unsorted(f, S \ {m})

\* sorted(root.path.iterdir())
RECURSIVE sorted(_, _)
sorted(f, S) ==
    IF S = {} THEN <<>>
    ELSE LET m == CHOOSE x \in S : \A y \in S \ {x} : PathLess(f, x, y)
         IN <<m>> \o sorted(f, S \ {m})

\* fnmatch.fnmatch on POSIX (normcase is the identity): '*' matches any run
\* of characters, '?' any one character, anything else itself.  Patterns
\* with '[' are not among the inputs.
RECURSIVE fnmatch(_, _)
fnmatch(name, pat) ==
    IF pat = <<>> THEN name = <<>>
    ELSE IF Head(pat) = 42
         THEN fnmatch(name, Tail(pat)) \/ (name # <<>> /\ fnmatch(Tail(name), pat))
    ELSE IF name = <<>> THEN FALSE
    ELSE (Head(pat) = 63 \/ Head(pat) = Head(name)) /\ fnmatch(Tail(name), Tail(pat))

----------------------------------------------------------------------------
(* class Item and its subclasses.  node, depth and links record where the  *)
(* item came from: the filesystem node of its path, the current_depth of   *)
(* the process_item call that built it (-1 for a root), the number of      *)
(* symbolic links among the components of its path.  expanded is set when  *)
(* traverse_tree has listed the item.                                      *)

Directory(name, path, node, d, links) ==
    [type |-> "directory", name |-> name, path |-> path, target |-> <<>>,
     children |-> <<>>, node |-> node, depth |-> d, links |-> links, expanded |-> FALSE]

Link(name, path, target, node, d, links) ==
    [type |-> "link", name |-> name, path |-> path, target |-> target,
     children |-> <<>>, node |-> node, depth |-> d, links |-> links, expanded |-> FALSE]

File(name, path, node, d, links) ==
    [type |-> "file", name |-> name, path |-> path, target |-> <<>>,
     children |-> <<>>, node |-> node, depth |-> d, links |-> links, expanded |-> FALSE]

is_directory(item) == item.type = "directory"

is_link(item) == item.type = "link"

----------------------------------------------------------------------------
(* class Tree *)

\* main() passes a Directory, so the isinstance(self.root, str) branch is
\* not taken; Directory(str) itself only resolves the path and does not
\* look at the filesystem.  What remains is the isinstance test.
validate_root(root) == is_directory(root)

break_condition_le(max_depth, current_depth) ==
    (max_depth = <<>>) \/ (current_depth <= max_depth[1])

break_condition_unbounded(max_depth, current_depth) == TRUE

break_condition(max_depth, current_depth) ==
    (max_depth = <<>>) \/ (current_depth < max_depth[1])

skip_condition_first(name, excl) == excl # <<>> /\ fnmatch(name, Head(excl))

RECURSIVE skip_condition(_, _)
skip_condition(name, excl) ==
    IF excl = <<>> THEN FALSE
    ELSE IF fnmatch(name, Head(excl)) THEN TRUE
    ELSE skip_condition(name, Tail(excl))

----------------------------------------------------------------------------
(* class GraphTree *)

connector_same(is_last_child) == TreeElements_LAST

connector(is_last_child) ==
    IF is_last_child THEN TreeElements_LAST ELSE TreeElements_FILE

display_name(child) ==
    IF is_directory(child) THEN child.name \o SLASH ELSE child.name

extension_blank(is_last_child) == EXT_LAST

extension(is_last_child) == IF is_last_child THEN EXT_LAST ELSE EXT_MORE

\* the two print calls of one iteration of the loop in draw()
line(prefix, child, is_last_child) ==
    prefix \o connector(is_last_child) \o SPACE \o display_name(child)
        \o (IF is_link(child) THEN SPACE \o TreeElements_LINK \o SPACE \o child.target
            ELSE <<>>)

\* draw(item, prefix): the lines printed for the children of item
RECURSIVE draw(_, _, _)
draw(its, id, prefix) ==
    IF ~is_directory(its[id]) \/ its[id].children = <<>> THEN <<>>
    ELSE LET children == its[id].children
             n == Len(children)
             OfChild(i) ==
                 LET child == its[children[i]]
                     is_last_child == (i = n)
                 IN <<line(prefix, child, is_last_child)>>
                    \o (IF is_directory(child)
                        THEN draw(its, children[i], prefix \o extension(is_last_child))
                        ELSE <<>>)
             Upto[i \in 0..n] == IF i = 0 THEN <<>> ELSE Upto[i - 1] \o OfChild(i)
         IN Upto[n]

\* GraphTree(root).draw(): the header and the lines below it
GraphTree_draw(its) == <<its[1].name \o SLASH>> \o draw(its, 1, <<>>)

----------------------------------------------------------------------------
(* The program: main(args) *)

\* the -e lists: patterns of Patterns in their order there
RECURSIVE Pick(_, _)
Pick(I, i) ==
    IF i > Len(Patterns) THEN <<>>
    ELSE (IF i \in I THEN <<Patterns[i]>> ELSE <<>>) \o Pick(I, i + 1)

ExcludeLists ==
    {Pick(I, 1) : I \in {J \in SUBSET DOMAIN Patterns : Cardinality(J) <= MaxExclude}}

DepthArgs == {<<>>} \cup {<<k>> : k \in 0..MaxDepthArg}

PathArgs == UNION {[1..n -> RootArgs] : n \in 1..MaxRoots}

Init ==
    /\ fs \in Fixtures
    /\ paths \in PathArgs
    /\ depth \in DepthArgs
    /\ exclude \in ExcludeLists
    /\ pc = "main"
    /\ ri = 1
    /\ items = <<>>
    /\ stack = <<>>
    /\ stdout = <<>>
    /\ drawStart = 0
    /\ err = "none"

ArgName(arg) ==
    IF arg = "dir" THEN fs[1].name ELSE IF arg = "missing" THEN ARG_MISSING ELSE ARG_FILE

ArgNode(arg) == IF arg = "dir" THEN 1 ELSE 0

\* the exception root.path.iterdir() raises, "none" if it lists
ListError(node) ==
    IF node = 0
    THEN (IF paths[ri] = "missing" THEN "FileNotFoundError" ELSE "NotADirectoryError")
    ELSE IF ~fs[node].readable THEN "PermissionError"
    ELSE "none"

Frame(id, node, d) == [item |-> id, entries |-> sorted(fs, iterdir(fs, node)), depth |-> d]

Top == stack[Len(stack)]

Entry == Head(Top.entries)

\* the stack with the entry in hand taken off the top frame
Advanced == [stack EXCEPT ![Len(stack)].entries = Tail(@)]

\* root.children.append(processed_item) for the item with identifier id
AppendChild(its, parent, id) == [its EXCEPT ![parent].children = Append(@, id)]

Raise(e) ==
    /\ pc' = "crashed"
    /\ err' = e

\* root_dir = Directory(root_dir); tree = Tree(root_dir, args.depth, args.exclude)
Construct ==
    /\ pc = "main"
    /\ ri <= Len(paths)
    /\ LET root == Directory(ArgName(paths[ri]), <<>>, ArgNode(paths[ri]), -1, 0)
       IN /\ items' = <<root>>
          /\ IF validate_root(root)
             THEN pc' = "built" /\ err' = err
             ELSE Raise("ValueError")
    /\ stack' = <<>>
    /\ drawStart' = Len(stdout)
    /\ UNCHANGED <<fs, paths, depth, exclude, ri, stdout>>

\* tree.traverse_tree(tree.root): the listing of the root
TraverseRoot ==
    /\ pc = "built"
    /\ IF ListError(items[1].node) = "none"
       THEN /\ stack' = <<Frame(1, items[1].node, 0)>>
            /\ items' = [items EXCEPT ![1].expanded = TRUE]
            /\ pc' = "walk"
            /\ err' = err
       ELSE /\ Raise(ListError(items[1].node))
            /\ UNCHANGED <<stack, items>>
    /\ UNCHANGED <<fs, paths, depth, exclude, ri, stdout, drawStart>>

Walking == pc = "walk" /\ stack # <<>> /\ Top.entries # <<>>

EntryPath == Append(items[Top.item].path, fs[Entry].name)

\* process_item: the entry matches an exclusion pattern
ProcessSkip ==
    /\ Walking
    /\ skip_condition(fs[Entry].name, exclude)
    /\ stack' = Advanced
    /\ UNCHANGED <<fs, paths, depth, exclude, pc, ri, items, stdout, drawStart, err>>

\* process_item: the entry is a directory; recurse unless the depth is reached
ProcessDir ==
    /\ Walking
    /\ ~skip_condition(fs[Entry].name, exclude)
    /\ is_dir(fs, Entry, items[Top.item].links)
    /\ LET links == items[Top.item].links + (IF is_symlink(fs, Entry) THEN 1 ELSE 0)
           dir_item == Directory(fs[Entry].name, EntryPath, Entry, Top.depth, links)
           id == Len(items) + 1
           node == Resolve(fs, Entry)
       IN IF break_condition(depth, Top.depth)
          THEN IF ListError(node) = "none"
               THEN /\ items' = Append(items, [dir_item EXCEPT !.expanded = TRUE])
                    /\ stack' = Append(Advanced, Frame(id, node, Top.depth + 1))
                    /\ UNCHANGED <<pc, err>>
               ELSE /\ items' = Append(items, dir_item)
                    /\ Raise(ListError(node))
                    /\ UNCHANGED stack
          ELSE /\ items' = AppendChild(Append(items, dir_item), Top.item, id)
               /\ stack' = Advanced
               /\ UNCHANGED <<pc, err>>
    /\ UNCHANGED <<fs, paths, depth, exclude, ri, stdout, drawStart>>

\* process_item: the entry is a symbolic link that is_dir() did not accept
ProcessLink ==
    /\ Walking
    /\ ~skip_condition(fs[Entry].name, exclude)
    /\ ~is_dir(fs, Entry, items[Top.item].links)
    /\ is_symlink(fs, Entry)
    /\ LET link_item == Link(fs[Entry].name, EntryPath, fs[Entry].raw, Entry, Top.depth,
                             items[Top.item].links + 1)
       IN items' = AppendChild(Append(items, link_item), Top.item, Len(items) + 1)
    /\ stack' = Advanced
    /\ UNCHANGED <<fs, paths, depth, exclude, pc, ri, stdout, drawStart, err>>

\* process_item: anything else is a File
ProcessFile ==
    /\ Walking
    /\ ~skip_condition(fs[Entry].name, exclude)
    /\ ~is_dir(fs, Entry, items[Top.item].links)
    /\ ~is_symlink(fs, Entry)
    /\ LET file_item == File(fs[Entry].name, EntryPath, Entry, Top.depth,
                             items[Top.item].links)
       IN items' = AppendChild(Append(items, file_item), Top.item, Len(items) + 1)
    /\ stack' = Advanced
    /\ UNCHANGED <<fs, paths, depth, exclude, pc, ri, stdout, drawStart, err>>

\* traverse_tree returns: to process_item, which returns dir_item to the
\* caller's loop, where it is appended; or to main
Return ==
    /\ pc = "walk"
    /\ stack # <<>>
    /\ Top.entries = <<>>
    /\ stack' = SubSeq(stack, 1, Len(stack) - 1)
    /\ IF Len(stack) = 1
       THEN pc' = "draw" /\ items' = items
       ELSE pc' = pc /\ items' = AppendChild(items, stack[Len(stack) - 1].item, Top.item)
    /\ UNCHANGED <<fs, paths, depth, exclude, ri, stdout, drawStart, err>>

\* GraphTree(tree.root).draw(), and on to the next path
Draw ==
    /\ pc = "draw"
    /\ stdout' = stdout \o GraphTree_draw(items)
    /\ ri' = ri + 1
    /\ pc' = "main"
    /\ UNCHANGED <<fs, paths, depth, exclude, items, stack, drawStart, err>>

\* the loop over args.paths is exhausted
Finish ==
    /\ pc = "main"
    /\ ri > Len(paths)
    /\ pc' = "done"
    /\ UNCHANGED <<fs, paths, depth, exclude, ri, items, stack, stdout, drawStart, err>>

Next ==
    \/ Construct
    \/ TraverseRoot
    \/ ProcessSkip
    \/ ProcessDir
    \/ ProcessLink
    \/ ProcessFile
    \/ Return
    \/ Draw
    \/ Finish

Spec == Init /\ [][Next]_vars

----------------------------------------------------------------------------
(* Vocabulary of the properties *)

Range(q) == {q[i] : i \in DOMAIN q}

\* the traversal of the current root has returned
Traversed == pc \in {"draw", "main", "done"} /\ items # <<>>

\* the current root has been drawn
AfterDraw == pc \in {"main", "done"} /\ items # <<>>

\* the lines draw() printed for the current root
Drawn == SubSeq(stdout, drawStart + 1, Len(stdout))

Excluded(name) == \E i \in DOMAIN exclude : fnmatch(name, exclude[i])

\* the entries of the directory an item stands for, without the excluded ones
Survivors(id) ==
    {n \in DOMAIN fs : fs[n].parent = Resolve(fs, items[id].node) /\ ~Excluded(fs[n].name)}

OnStack(id) == \E i \in DOMAIN stack : stack[i].item = id

\* traverse_tree was called on the item and has returned
Finished(id) == is_directory(items[id]) /\ items[id].expanded /\ ~OnStack(id)

ChildNames(id) == [i \in DOMAIN items[id].children |-> items[items[id].children[i]].name]

HasParent(id) == \E q \in DOMAIN items : id \in Range(items[q].children)

Parent(id) == CHOOSE q \in DOMAIN items : id \in Range(items[q].children)

IsLastChild(id) == items[Parent(id)].children[Len(items[Parent(id)].children)] = id

\* nesting level: 0 for the root, 1 for its children
Level(id) == Len(items[id].path)

\* the items below id in depth-first pre-order
RECURSIVE PreOrder(_)
PreOrder(id) ==
    LET ch == items[id].children
        Upto[i \in 0..Len(ch)] ==
            IF i = 0 THEN <<>> ELSE Upto[i - 1] \o <<ch[i]>> \o PreOrder(ch[i])
    IN Upto[Len(ch)]

\* one segment per proper ancestor below the root, outermost first
RECURSIVE AncestorSegments(_)
AncestorSegments(id) ==
    IF Level(id) <= 1 THEN <<>>
    ELSE AncestorSegments(Parent(id))
         \o (IF IsLastChild(Parent(id)) THEN <<32, 32, 32, 32>> ELSE <<9474, 32, 32, 32>>)

\* the characters of a line from position a on, at most n of them
Piece(l, a, n) == SubSeq(l, a, IF a + n - 1 <= Len(l) THEN a + n - 1 ELSE Len(l))

\* the name a child line shows: what follows the indentation and the
\* connector, up to a '/' or a ' '
RECURSIVE SkipArt(_)
SkipArt(l) ==
    IF l # <<>> /\ Head(l) \in {32, 9474, 9492, 9500, 9472} THEN SkipArt(Tail(l)) ELSE l

RECURSIVE UptoStop(_)
UptoStop(l) ==
    IF l = <<>> \/ Head(l) \in {32, 47} THEN <<>> ELSE <<Head(l)>> \o UptoStop(Tail(l))

ShownName(l) == UptoStop(SkipArt(l))

\* the directories nested in one another, symbolic links not followed
RECURSIVE RealNesting(_)
RealNesting(n) ==
    1 + Max({0} \cup {RealNesting(c) : c \in {m \in DOMAIN fs : fs[m].parent = n /\ fs[m].kind = "dir"}})

RootDirs == {id \in Range(items[1].children) : is_directory(items[id])}

----------------------------------------------------------------------------
(* C1 *)

\* C1 (as the claim states it): after a traversal with max_depth = 1 every
\* Directory that is a direct child of the root has empty children.
C1_DepthOneListsOnly ==
    (Traversed /\ depth = <<1>>) => \A id \in RootDirs : items[id].children = <<>>

\* C1 (amended): it is max_depth = 0 that lists the root's direct entries
\* without expanding a subdirectory among them; with max_depth = 1 each direct
\* subdirectory holds its own surviving entries, and the directories among
\* those have empty children.
C1_DepthZeroListsOnly ==
    /\ (Traversed /\ depth = <<0>>) =>
          /\ Len(items[1].children) = Cardinality(Survivors(1))
          /\ \A id \in RootDirs : items[id].children = <<>>
    /\ (Traversed /\ depth = <<1>>) =>
          \A id \in RootDirs :
              /\ Len(items[id].children) = Cardinality(Survivors(id))
              /\ \A g \in Range(items[id].children) : items[g].children = <<>>

\* a root listed with max_depth = 0 in which a subdirectory with entries of
\* its own appears childless next to a file
C1_Witness ==
    /\ Traversed
    /\ depth = <<0>>
    /\ \E id \in RootDirs : Survivors(id) # {} /\ items[id].children = <<>>
    /\ \E id \in Range(items[1].children) : items[id].type = "file"

----------------------------------------------------------------------------
(* C2 *)

\* the three characters after the indentation of the line of the k-th item
ConnectorOf(k) == Piece(Drawn[k + 1], 4 * (Level(PreOrder(1)[k]) - 1) + 1, 3)

\* C2 (as the claim states it): the branching glyph never appears in any
\* rendered output.
C2_NoBranchGlyph ==
    \A i \in DOMAIN stdout : \A j \in DOMAIN stdout[i] : stdout[i][j] # 9500

\* C2 (amended): draw prints one line per item; the line of a last sibling
\* carries the corner glyph, the line of a child with siblings after it the
\* branching glyph.
C2_GlyphByPosition ==
    AfterDraw =>
        /\ Len(Drawn) = 1 + Len(PreOrder(1))
        /\ \A k \in DOMAIN PreOrder(1) :
              ConnectorOf(k) = IF IsLastChild(PreOrder(1)[k])
                               THEN <<9492, 9472, 9472>>
                               ELSE <<9500, 9472, 9472>>

\* the scenario of the claim has been drawn: a directory with a child of its
\* own, followed by a sibling
C2_Witness ==
    /\ AfterDraw
    /\ \E id \in RootDirs : items[id].children # <<>> /\ ~IsLastChild(id)

----------------------------------------------------------------------------
(* C3 *)

\* C3 (as the claim states it): every entry that is a symbolic link is built
\* as a Link without children and is never listed.
C3_SymlinksAreLeaves ==
    \A id \in DOMAIN items :
        (items[id].node # 0 /\ fs[items[id].node].kind = "link") =>
            /\ is_link(items[id])
            /\ items[id].children = <<>>
            /\ ~items[id].expanded

----------------------------------------------------------------------------
(* C4 *)

----------------------------------------------------------------------------
(* C5 *)

\* C5 (as the claim states it): a Tree exists only for a root that is an
\* existing directory.
C5_RootIsDirectory == pc \in {"built", "walk", "draw"} => paths[ri] = "dir"

----------------------------------------------------------------------------
(* C6 *)

Headers == {i \in DOMAIN stdout : stdout[i] = fs[1].name \o SLASH}

\* C6 (as the claim states it): when the program has ended, every root that
\* is a directory has had its header printed.
C6_LaterRootsPrinted ==
    pc \in {"done", "crashed"} =>
        Cardinality(Headers) = Cardinality({r \in DOMAIN paths : paths[r] = "dir"})

----------------------------------------------------------------------------
(* C7 *)

\* C7: the children of a directory whose listing has returned are one item
\* per surviving entry, in strictly ascending order of name.
C7_ChildrenSorted ==
    \A id \in DOMAIN items :
        Finished(id) =>
            /\ Len(items[id].children) = Cardinality(Survivors(id))
            /\ {items[c].node : c \in Range(items[id].children)} = Survivors(id)
            /\ \A c \in Range(items[id].children) : items[c].name = fs[items[c].node].name
            /\ \A i \in 1..(Len(items[id].children) - 1) :
                  StrLess(ChildNames(id)[i], ChildNames(id)[i + 1])

\* the entries b, A, a1 have been listed as A, a1, b
C7_Witness == Traversed /\ Finished(1) /\ ChildNames(1) = <<n_A, n_a1, n_b>>

----------------------------------------------------------------------------
(* C8 *)

\* C8: with max_depth = k, the depth recorded for an item is its nesting
\* below the root's entries; a directory found at depth d >= k is never
\* listed and stays empty, one found at depth d < k holds its surviving
\* entries once its listing has returned, and the root is listed whatever k.
C8_DepthBound ==
    (depth # <<>> /\ pc \in {"walk", "draw", "main", "done"} /\ items # <<>>) =>
        /\ items[1].expanded
        /\ Traversed => Len(items[1].children) = Cardinality(Survivors(1))
        /\ \A id \in DOMAIN items \ {1} :
              /\ items[id].depth = Level(id) - 1
              /\ is_directory(items[id]) =>
                    /\ items[id].depth >= depth[1] =>
                          ~items[id].expanded /\ items[id].children = <<>>
                    /\ items[id].depth < depth[1] =>
                          /\ items[id].expanded
                          /\ Finished(id) =>
                                Len(items[id].children) = Cardinality(Survivors(id))

\* with max_depth = 1: a directory at depth 0 holds its entries, a directory
\* at depth 1 that has entries is left empty
C8_Witness ==
    /\ Traversed
    /\ depth = <<1>>
    /\ \E id \in DOMAIN items :
          is_directory(items[id]) /\ items[id].depth = 0 /\ items[id].children # <<>>
    /\ \E id \in DOMAIN items :
          is_directory(items[id]) /\ items[id].depth = 1 /\ Survivors(id) # {}
              /\ items[id].children = <<>>

----------------------------------------------------------------------------
(* C9 *)

\* C9: the lines under the header are those of the items in depth-first
\* pre-order; the line of an item at level n starts with the 4*(n-1)
\* characters of its ancestors' segments, then the connector, a space and
\* the item's name.
C9_PrefixAndOrder ==
    AfterDraw =>
        /\ Len(Drawn) = 1 + Len(PreOrder(1))
        /\ \A k \in DOMAIN PreOrder(1) :
              LET id == PreOrder(1)[k]
                  l == Drawn[k + 1]
                  w == 4 * (Level(id) - 1)
              IN /\ Len(AncestorSegments(id)) = w
                 /\ Piece(l, 1, w) = AncestorSegments(id)
                 /\ Piece(l, w + 1, 1) \in {<<9492>>, <<9500>>}
                 /\ Piece(l, w + 4, 1) = <<32>>
                 /\ Piece(l, w + 5, Len(items[id].name)) = items[id].name

\* a line has been drawn at level 3 or deeper whose indentation has a
\* segment of each kind
C9_Witness ==
    /\ AfterDraw
    /\ \E id \in DOMAIN items :
          /\ Level(id) >= 3
          /\ IsLastChild(Parent(id))
          /\ ~IsLastChild(Parent(Parent(id)))

----------------------------------------------------------------------------
(* C10 *)

\* C10 (as the claim states it): with max_depth omitted the calls of
\* traverse_tree never nest deeper than the directories of the filesystem do.
C10_RecursionBounded == depth = <<>> => Len(stack) <= RealNesting(1)

====
